---- MODULE Spec2Model ----
(***************************************************************************)
(* Speechi front-end: client-side session and usage governance.            *)
(*                                                                         *)
(* The model covers lib/storage.ts (usage counter, local profile, meeting  *)
(* history), lib/authApi.ts (token handling, auth requests), both          *)
(* AuthProvider variants of context/AuthContext.tsx (backend-authenticated *)
(* and local-simulated) and the analyze handler of pages/NewMeeting.tsx.   *)
(* One browser tab is modelled in full; other tabs of the same browser     *)
(* profile appear as writers of the shared localStorage.                   *)
(***************************************************************************)
EXTENDS Integers, Sequences, FiniteSets, TLC

\* ---------------------------------------------------------------------
\* Bounds of the model
\* ---------------------------------------------------------------------
MaxDay == 2      \* calendar days the clock runs through
MaxIds == 1      \* ids (history items, local profiles) created during a run
MaxFetch == 1    \* auth/usage requests in flight at once
MaxAdds == 2     \* addHistoryItem calls that append in a run of the history operations
MaxCount == 2    \* stored usage count up to which the accessor runs go on incrementing
MaxServer == 2   \* analyses the backend counts for the account in a run of the usage fetches

\* ---------------------------------------------------------------------
\* Value spaces
\* ---------------------------------------------------------------------
Variants == {"backend", "local"}
Secs == {0, 60}                      \* sampled seconds within a day
Files == {"a.mp3"}
Null == "null"
NoUser == [id |-> 0, email |-> Null]
User1 == [id |-> 101, email |-> "a@x"]
User2 == [id |-> 102, email |-> "b@x"]
Users == {User1, User2}              \* accounts the backend may return
LocalIds == {201, 202}               \* values crypto.randomUUID() may return for a profile
RawEmails == {"a@x", " A@X ", "b@x"} \* e-mail strings as typed
Tokens == {"t1"}                     \* tokens the backend may issue
ServerUsages ==                      \* {usedToday, dailyLimit} the backend may report
    {[usedToday |-> 0, dailyLimit |-> 5], [usedToday |-> 10, dailyLimit |-> 10]}

MAX_HISTORY == 100

\* A localStorage slot for the usage record: absent, not a well-formed
\* UsageData JSON object, or a well-formed one.
AbsentUsage == [kind |-> "absent", date |-> 0, count |-> 0, lastUsedAt |-> 0]
StoredUsage(u) ==
    [kind |-> "valid", date |-> u.date, count |-> u.count, lastUsedAt |-> u.lastUsedAt]

NoLimit == [set |-> FALSE, isRegistered |-> FALSE, limit |-> 0]
NoReport == [valid |-> FALSE, migrated |-> 0, before |-> 0]
NoResult == [status |-> "none", user |-> NoUser]
Success(u) == [status |-> "success", user |-> u]        \* { success: true, user }
Failure(error) == [status |-> error, user |-> NoUser]   \* { success: false, error }
NoAnalysis == [state |-> "none", file |-> Null, authAtClick |-> FALSE, inFlight |-> 0]
NoPrefs == [uiLanguage |-> Null, outputLanguage |-> Null, theme |-> Null]
NoRet == [fn |-> "none", key |-> Null, outcome |-> "none", value |-> Null]
NoForm == [firstName |-> <<>>, lastName |-> <<>>, email |-> <<>>,
           password |-> <<>>, confirmPassword |-> <<>>]
NoAuthReq ==
    [kind |-> "none", user |-> NoUser, usage |-> [usedToday |-> 0, dailyLimit |-> 5],
     payload |-> <<>>]

VARIABLES
    variant,       \* which AuthProvider the application is composed with
    today, secs,   \* the client clock: calendar day and seconds within it
    lsUsage,       \* localStorage["speechi_usage"]
    lsUser,        \* localStorage["speechi_user"]
    lsHistory,     \* localStorage["speechi.history"] (oldest first)
    nextId,        \* ids handed out by crypto.randomUUID()
    storageEvents, \* storage events queued for this tab (keys)
    token,         \* authApi module variable _token
    ssToken,       \* sessionStorage["speechi_token"]
    user,          \* AuthProvider state: user
    isLoading,     \* AuthProvider state: isLoading
    serverUsage,   \* AuthProvider state: serverUsage (backend variant)
    guestUsage,    \* AuthProvider state: guestUsage / usageData
    pcInit,        \* position of the mount effect of the backend variant
    authReq,       \* the register/login call in progress
    authResult,    \* result returned by the last register/login call
    usageReqs,     \* auth/usage requests in flight
    file, loading, limitReached, analysis,   \* NewMeeting state
    lastOp,        \* the handler that ran last
    incsToday,     \* increments of the usage record since the last rollover
    histLenAtCall, \* length of the local history when migrateMeetings was called
    lastMigrated,  \* the answer of auth/migrate-meetings just received
    sent,          \* endpoints the handler that ran last sent a request to
    storageMode,   \* the browser storage: "ok", "full" (writes throw), "disabled" (all throw)
    prefs,         \* localStorage uiLanguage / outputLanguage / theme values
    ret,           \* outcome of the last storage accessor call
    form, errors,  \* AuthModal state: the register form and its field errors
    backendUsage,  \* the analyses the backend counted, and its auth/usage answers on their way
    arg            \* the e-mail the login() that ran last was called with

vars == <<variant, today, secs, lsUsage, lsUser, lsHistory, nextId, storageEvents,
          token, ssToken, user, isLoading, serverUsage, guestUsage, pcInit,
          authReq, authResult, usageReqs, file, loading, limitReached, analysis,
          lastOp, incsToday, histLenAtCall,
          lastMigrated, sent, storageMode, prefs, ret, form, errors, backendUsage, arg>>

\* ---------------------------------------------------------------------
\* lib/storage.ts
\* ---------------------------------------------------------------------
getTodayDate == today

\* localStorage.getItem throws when the storage is disabled; setItem throws
\* as well when the quota is exceeded
getItemThrows == storageMode = "disabled"
setItemThrows == storageMode \in {"full", "disabled"}

\* try { localStorage.setItem(key, value) } catch { /* ignore */ }: the slot afterwards
written(old, new) == IF setItemThrows THEN old ELSE new

\* try { localStorage.removeItem(key) } catch { /* ignore */ }: the slot afterwards
removed(old, empty) == IF getItemThrows THEN old ELSE empty

FreshUsage(day) == [date |-> day, count |-> 0, lastUsedAt |-> 0]

\* getUsage() without the date comparison
getUsageOf_noReset(raw, day) ==
    IF raw.kind # "valid" THEN FreshUsage(day)
    ELSE [date |-> raw.date, count |-> raw.count, lastUsedAt |-> raw.lastUsedAt]

\* getUsage(): lazy reset, never writes
getUsageOf(raw, day) ==
    IF raw.kind # "valid" THEN FreshUsage(day)
    ELSE IF raw.date # day THEN FreshUsage(day)
    ELSE [date |-> raw.date, count |-> raw.count, lastUsedAt |-> raw.lastUsedAt]

\* what getUsage() parses: the stored record, or nothing when getItem throws
\* and the catch block takes over
rawUsage == IF getItemThrows THEN AbsentUsage ELSE lsUsage

getUsage == getUsageOf(rawUsage, getTodayDate)

\* incrementUsage() adding to the stored count whatever its date
incrementedUsage_noBaseline(raw, day) ==
    [date |-> day, count |-> raw.count + 1, lastUsedAt |-> day]

\* incrementUsage(): the record it writes and returns
incrementedUsage(raw, day) ==
    [date |-> day, count |-> getUsageOf(raw, day).count + 1, lastUsedAt |-> day]

\* loadHistory(): the stored list, oldest first
loadHistory == IF getItemThrows THEN <<>> ELSE lsHistory

\* items.slice(0, n): keeps the head of the list
LastN_head(items, n) ==
    IF Len(items) <= n THEN items ELSE SubSeq(items, 1, n)

\* items.slice(-n)
LastN(items, n) ==
    IF Len(items) <= n THEN items ELSE SubSeq(items, Len(items) - n + 1, Len(items))

\* saveHistory(items): what ends up in the store
savedHistory(items) == written(lsHistory, LastN(items, MAX_HISTORY))

Reverse(s) == [i \in 1..Len(s) |-> s[Len(s) + 1 - i]]

\* getHistory(): newest first
getHistory == Reverse(loadHistory)

\* new Date(createdAt).getTime(), in seconds
TimeOf(t) == t.day * 86400 + t.sec

Abs(x) == IF x < 0 THEN -x ELSE x

\* the predicate of list.find() with the window closed at 60 s
IsDuplicate_inclusive(e, fileName, createdAt) ==
    e.fileName = fileName /\ Abs(TimeOf(e.createdAt) - TimeOf(createdAt)) <= 60

\* the predicate of list.find() in addHistoryItem
IsDuplicate(e, fileName, createdAt) ==
    e.fileName = fileName /\ Abs(TimeOf(e.createdAt) - TimeOf(createdAt)) < 60

\* addHistoryItem(item): the stored list afterwards
addedHistory(list, fileName, createdAt, id) ==
    IF \E i \in 1..Len(list) : IsDuplicate(list[i], fileName, createdAt)
    THEN list
    ELSE savedHistory(Append(list, [id |-> id, fileName |-> fileName, createdAt |-> createdAt]))

\* addHistoryItem(item): the item it returns, the first stored match or the new entry
addHistoryItemResult(list, fileName, createdAt, id) ==
    LET matches == {i \in 1..Len(list) : IsDuplicate(list[i], fileName, createdAt)}
    IN  IF matches # {}
        THEN list[CHOOSE i \in matches : \A j \in matches : i <= j]
        ELSE [id |-> id, fileName |-> fileName, createdAt |-> createdAt]

\* deleteHistoryItem(id): the stored list afterwards
deletedHistory(list, id) == savedHistory(SelectSeq(list, LAMBDA e : e.id # id))

\* updateHistoryExports(id, format): the stored list afterwards; the export
\* flags are not part of the modelled item, so a found item is saved as it is
updatedHistory(list, id) ==
    IF \E i \in 1..Len(list) : list[i].id = id THEN savedHistory(list) ELSE lsHistory

\* clearHistory() that saves the list it loaded
clearedHistory_kept == savedHistory(loadHistory)

\* clearHistory()
clearedHistory == savedHistory(<<>>)

\* email.toLowerCase() and email.trim().toLowerCase()
LowerEmail(e) == IF e = " A@X " THEN " a@x " ELSE e
NormEmail(e) == IF e \in {" A@X ", " a@x "} THEN "a@x" ELSE e

\* getUser()
getUser == IF getItemThrows THEN NoUser ELSE lsUser

\* createUser(name, email): the profile it stores and returns
createdUser(email, id) == [id |-> id, email |-> NormEmail(email)]

\* findUserByEmail(email)
findUserByEmail_exact(email) ==
    IF getUser = NoUser THEN NoUser
    ELSE IF getUser.email = email THEN getUser
    ELSE NoUser

findUserByEmail(email) ==
    IF getUser = NoUser THEN NoUser
    ELSE IF LowerEmail(getUser.email) = NormEmail(email) THEN getUser
    ELSE NoUser

\* canUseService()
canUseService ==
    LET isRegistered == getUser # NoUser
        limit == IF isRegistered THEN 5 ELSE 1
        used == getUsage.count
    IN  [allowed |-> used < limit, used |-> used, limit |-> limit,
         isRegistered |-> isRegistered]

\* ---------------------------------------------------------------------
\* context/AuthContext.tsx: derived state
\* ---------------------------------------------------------------------
isAuthenticated == user # NoUser

\* calculateUsageInfo(usageData, isRegistered) of the local variant
calculateUsageInfo(usageData, isRegistered) ==
    [usedToday |-> usageData.count, dailyLimit |-> IF isRegistered THEN 5 ELSE 1]

\* usage of the backend variant with the registered limit for guests
usageBackend_guestFive ==
    IF isAuthenticated THEN serverUsage
    ELSE [usedToday |-> guestUsage.count, dailyLimit |-> 5]

\* usage of the backend variant
usageBackend ==
    IF isAuthenticated THEN serverUsage
    ELSE [usedToday |-> guestUsage.count, dailyLimit |-> 1]

usage ==
    IF variant = "backend" THEN usageBackend
    ELSE calculateUsageInfo(guestUsage, isAuthenticated)

canUse == usage.usedToday < usage.dailyLimit

\* checkLimit() of the backend variant allowing used = limit
checkLimitBackend_inclusive ==
    LET isRegistered == user # NoUser
        limit == IF isRegistered THEN serverUsage.dailyLimit ELSE 1
        used == IF isRegistered THEN serverUsage.usedToday ELSE guestUsage.count
        allowed == used <= limit
    IN  [canProceed |-> allowed, limitReached |-> ~allowed,
         isRegistered |-> isRegistered, used |-> used, limit |-> limit]

\* checkLimit() of the backend variant: answers from the reactive state
checkLimitBackend ==
    LET isRegistered == user # NoUser
        limit == IF isRegistered THEN serverUsage.dailyLimit ELSE 1
        used == IF isRegistered THEN serverUsage.usedToday ELSE guestUsage.count
        allowed == used < limit
    IN  [canProceed |-> allowed, limitReached |-> ~allowed,
         isRegistered |-> isRegistered, used |-> used, limit |-> limit]

\* checkLimit() of the local variant: re-reads the store
checkLimitLocal ==
    LET currentUsage == getUsage
        isRegistered == user # NoUser
        limit == IF isRegistered THEN 5 ELSE 1
        used == currentUsage.count
        allowed == used < limit
    IN  [canProceed |-> allowed, limitReached |-> ~allowed,
         isRegistered |-> isRegistered, used |-> used, limit |-> limit]

checkLimit == IF variant = "backend" THEN checkLimitBackend ELSE checkLimitLocal

\* the usage state checkLimit() leaves behind (the local variant refreshes it)
usageAfterCheck == IF variant = "backend" THEN guestUsage ELSE getUsage

\* NewMeeting: the effect that clears a guest limit message once authenticated
limitAfterEffect(u, lr) ==
    IF u # NoUser /\ lr.set /\ ~lr.isRegistered THEN NoLimit ELSE lr

\* ---------------------------------------------------------------------
\* Initial state: the application has just rendered for the first time
\* ---------------------------------------------------------------------
InitialUsages ==
    {AbsentUsage,
     [kind |-> "valid", date |-> 0, count |-> 1, lastUsedAt |-> 0]}

InitWith(history) ==
    /\ variant \in Variants
    /\ storageMode = "ok"
    /\ today = 1 /\ secs = 0
    /\ lsUsage \in InitialUsages
    /\ lsUser = NoUser
    /\ lsHistory = history
    /\ nextId = 1
    /\ storageEvents = {}
    /\ token = Null
    /\ ssToken \in (IF variant = "backend" THEN {Null, "t0"} ELSE {Null})
    /\ user = getUser
    /\ isLoading = (variant = "backend")
    /\ serverUsage = [usedToday |-> 0, dailyLimit |-> 5]
    /\ guestUsage = getUsage
    /\ pcInit = IF variant = "backend" THEN "mount" ELSE "done"
    /\ authReq = NoAuthReq
    /\ authResult = NoResult
    /\ usageReqs = 0
    /\ file = Null /\ loading = FALSE /\ limitReached = NoLimit
    /\ analysis = NoAnalysis
    /\ lastOp = "init"
    /\ incsToday = 0
    /\ histLenAtCall = 0
    /\ lastMigrated = NoReport
    /\ sent = {}
    /\ prefs = NoPrefs
    /\ ret = NoRet
    /\ form = NoForm
    /\ errors = {}
    /\ backendUsage = [used |-> 0, answers |-> {}]
    /\ arg = Null

\* a fresh browser profile, or one that used its guest analysis yesterday
Init == InitWith(<<>>)

Mounted == pcInit # "mount"

storageVars == <<lsUsage, lsUser, lsHistory, nextId>>
clockVars == <<today, secs>>
tokenVars == <<token, ssToken>>
pageVars == <<file, loading, limitReached, analysis>>

\* bookkeeping of a step: the handler that ran and what it returned
NoteA(op, result, endpoints, a) ==
    /\ lastOp' = op
    /\ authResult' = result
    /\ lastMigrated' = NoReport
    /\ sent' = endpoints
    /\ arg' = a

NoteS(op, result, endpoints) == NoteA(op, result, endpoints, Null)

NoteR(op, result) == NoteS(op, result, {})

Note(op) == NoteR(op, NoResult)

requestVars == <<pcInit, authReq, usageReqs>>
auxVars == <<storageMode, prefs, ret, form, errors>>

\* ---------------------------------------------------------------------
\* The client clock
\* ---------------------------------------------------------------------
\* Seconds pass unobserved until new Date() is read: that reading picks any
\* sampled time of the day not earlier than the previous reading.
LaterSecs == {s \in Secs : s >= secs}

NextDay ==
    /\ today < MaxDay
    /\ today' = today + 1
    /\ secs' = 0
    /\ incsToday' = 0
    /\ Note("other")
    /\ UNCHANGED <<variant, backendUsage, auxVars, storageVars, storageEvents, tokenVars, user,
                   isLoading, serverUsage, guestUsage, requestVars, pageVars, histLenAtCall>>

\* ---------------------------------------------------------------------
\* Another, freshly loaded tab of the same browser profile completes an
\* analysis its own gate allowed (storage.ts incrementUsage run there); the
\* local variant of this tab is notified by a storage event.
\* ---------------------------------------------------------------------
otherTabAllowed ==
    IF variant = "local" THEN canUseService.allowed ELSE getUsage.count < 1

OtherTabIncrement ==
    /\ otherTabAllowed
    /\ lsUsage' = written(lsUsage, StoredUsage(incrementedUsage(rawUsage, getTodayDate)))
    /\ incsToday' = IF lsUsage' = lsUsage THEN incsToday ELSE incsToday + 1
    /\ storageEvents' =
         IF variant = "local" /\ lsUsage' # lsUsage
         THEN storageEvents \cup {"speechi_usage"} ELSE storageEvents
    /\ Note("other")
    /\ UNCHANGED <<variant, backendUsage, auxVars, clockVars, lsUser, lsHistory, nextId, tokenVars, user,
                   isLoading, serverUsage, guestUsage, requestVars, pageVars, histLenAtCall>>

\* Another tab of the local-simulated variant registers: createUser() run there
OtherTabRegister(email) ==
    /\ variant = "local"
    /\ \E id \in LocalIds : lsUser' = written(lsUser, createdUser(email, id))
    /\ lsUser' # lsUser
    /\ storageEvents' = storageEvents \cup {"speechi_user"}
    /\ Note("other")
    /\ UNCHANGED <<variant, backendUsage, auxVars, clockVars, lsUsage, lsHistory, nextId, tokenVars, user,
                   isLoading, serverUsage, guestUsage, requestVars, pageVars, incsToday,
                   histLenAtCall>>

\* Another tab of the local-simulated variant logs out: removeUser() run there
OtherTabLogout ==
    /\ variant = "local"
    /\ lsUser' = removed(lsUser, NoUser)
    /\ lsUser' # lsUser
    /\ storageEvents' = storageEvents \cup {"speechi_user"}
    /\ Note("other")
    /\ UNCHANGED <<variant, backendUsage, auxVars, clockVars, lsUsage, lsHistory, nextId, tokenVars, user,
                   isLoading, serverUsage, guestUsage, requestVars, pageVars, incsToday,
                   histLenAtCall>>

\* ---------------------------------------------------------------------
\* AuthProvider, local-simulated variant
\* ---------------------------------------------------------------------
\* a listener that re-reads the usage for the usage key only
usageAfterStorageEvent_usageKeyOnly(key) ==
    IF key = "speechi_usage" THEN getUsage ELSE guestUsage

\* handleStorage: the usage it leaves, re-read for either key
usageAfterStorageEvent(key) ==
    IF key \in {"speechi_usage", "speechi_user"} THEN getUsage ELSE guestUsage

\* window "storage" listener
L_HandleStorage(key) ==
    /\ variant = "local"
    /\ key \in storageEvents
    /\ storageEvents' = storageEvents \ {key}
    /\ user' = IF key = "speechi_user" THEN getUser ELSE user
    /\ guestUsage' = usageAfterStorageEvent(key)
    /\ limitReached' = limitAfterEffect(user', limitReached)
    /\ Note("storage")
    /\ UNCHANGED <<variant, backendUsage, auxVars, clockVars, storageVars, tokenVars, isLoading, serverUsage,
                   requestVars, file, loading, analysis, incsToday,
                   histLenAtCall>>

\* register(name, email)
L_Register(email) ==
    /\ variant = "local"
    /\ \E id \in LocalIds :
         /\ lsUser' = written(lsUser, createdUser(email, id))
         /\ user' = createdUser(email, id)
    /\ guestUsage' = getUsage
    /\ isLoading' = FALSE
    /\ limitReached' = limitAfterEffect(user', limitReached)
    /\ NoteR("register", Success(user'))
    /\ UNCHANGED <<variant, backendUsage, auxVars, clockVars, lsUsage, lsHistory, nextId, storageEvents, tokenVars,
                   serverUsage, pcInit, authReq, usageReqs, file, loading, analysis, incsToday, histLenAtCall>>

\* login(email)
L_Login(email) ==
    /\ variant = "local"
    /\ LET foundUser == findUserByEmail(email)
       IN  IF foundUser # NoUser
           THEN /\ user' = foundUser
                /\ guestUsage' = getUsage
                /\ NoteA("login", Success(foundUser), {}, email)
           ELSE /\ NoteA("loginFail", Failure("not_found"), {}, email)
                /\ UNCHANGED <<user, guestUsage>>
    /\ isLoading' = FALSE
    /\ limitReached' = limitAfterEffect(user', limitReached)
    /\ UNCHANGED <<variant, backendUsage, auxVars, clockVars, storageVars, storageEvents, tokenVars,
                   serverUsage, pcInit, authReq, usageReqs, file, loading, analysis, incsToday, histLenAtCall>>

\* logout()
L_Logout ==
    /\ variant = "local"
    /\ isAuthenticated
    /\ lsUser' = removed(lsUser, NoUser)
    /\ user' = NoUser
    /\ guestUsage' = getUsage
    /\ Note("logout")
    /\ UNCHANGED <<variant, backendUsage, auxVars, clockVars, lsUsage, lsHistory, nextId, storageEvents,
                   tokenVars, isLoading, serverUsage, requestVars, pageVars, incsToday, histLenAtCall>>

\* ---------------------------------------------------------------------
\* Usage actions shared by both variants' interface
\* ---------------------------------------------------------------------
\* refreshUsage(): guest path of the backend variant, only path of the local one
RefreshUsageLocal ==
    /\ Mounted
    /\ variant = "local" \/ ~isAuthenticated
    /\ guestUsage' = getUsage
    /\ Note("refreshUsage")
    /\ UNCHANGED <<variant, backendUsage, auxVars, clockVars, storageVars, storageEvents, tokenVars, user,
                   isLoading, serverUsage, requestVars, pageVars,
                   incsToday, histLenAtCall>>

\* ---------------------------------------------------------------------
\* pages/NewMeeting.tsx
\* ---------------------------------------------------------------------
\* an Analyze control that stays enabled while a request is in flight
canAnalyze_ignoresLoading == file # Null /\ ~limitReached.set

canAnalyze == file # Null /\ ~loading /\ ~limitReached.set

\* UploadZone onSelect / AudioRecorder onRecordingComplete
SelectFile(f) ==
    /\ Mounted
    /\ ~loading
    /\ file # f
    /\ file' = f
    /\ Note("other")
    /\ UNCHANGED <<variant, backendUsage, auxVars, clockVars, storageVars, storageEvents, tokenVars, user,
                   isLoading, serverUsage, guestUsage, requestVars, loading,
                   limitReached, analysis, incsToday, histLenAtCall>>

\* handleAnalyze ignoring the answer of checkLimit()
analyzeSends_always(limitStatus) == TRUE

\* handleAnalyze, up to the await: does the click send a request?
analyzeSends(limitStatus) == limitStatus.canProceed

HandleAnalyze ==
    /\ Mounted
    /\ canAnalyze
    /\ nextId <= MaxIds
    /\ guestUsage' = usageAfterCheck
    /\ IF ~analyzeSends(checkLimit)
       THEN /\ limitReached' =
                 limitAfterEffect(user, [set |-> TRUE,
                                         isRegistered |-> checkLimit.isRegistered,
                                         limit |-> checkLimit.limit])
            /\ UNCHANGED <<loading, analysis>>
       ELSE /\ limitReached' = NoLimit
            /\ loading' = TRUE
            /\ analysis' = [state |-> "pending", file |-> file,
                            authAtClick |-> isAuthenticated,
                            inFlight |-> analysis.inFlight + 1]
    /\ NoteS("handleAnalyze", NoResult,
             IF analyzeSends(checkLimit) THEN {"process-meeting"} ELSE {})
    /\ UNCHANGED <<variant, backendUsage, auxVars, clockVars, storageVars, storageEvents, tokenVars, user,
                   isLoading, serverUsage, requestVars, file, incsToday, histLenAtCall>>

\* the requests of the page once one of them has settled
settled(a) == IF a.inFlight > 1 THEN [a EXCEPT !.inFlight = @ - 1] ELSE NoAnalysis

\* incrementUsage() as captured by the handler: TRUE when it takes the
\* registered path (a usage fetch), FALSE when it increments the local counter
incrementFetches(authAtClick) == variant = "backend" /\ authAtClick

\* incrementUsage() of a registered session counting the analysis itself
serverUsageAfterIncrement_predicted(us) == [us EXCEPT !.usedToday = @ + 1]

\* incrementUsage() of a registered session: the cached usage is left as it
\* is until the auth/usage response arrives
serverUsageAfterIncrement(us) == us

\* process-meeting answered with a result
AnalyzeOk ==
    /\ analysis.state = "pending"
    /\ IF incrementFetches(analysis.authAtClick)
       THEN /\ usageReqs < MaxFetch
            /\ usageReqs' = usageReqs + 1
            /\ serverUsage' = serverUsageAfterIncrement(serverUsage)
            /\ UNCHANGED <<lsUsage, guestUsage, incsToday>>
       ELSE /\ lsUsage' = written(lsUsage, StoredUsage(incrementedUsage(rawUsage, getTodayDate)))
            /\ guestUsage' = incrementedUsage(rawUsage, getTodayDate)
            /\ incsToday' = IF lsUsage' = lsUsage THEN incsToday ELSE incsToday + 1
            /\ UNCHANGED <<usageReqs, serverUsage>>
    /\ \E s \in LaterSecs :
         LET createdAt == [day |-> today, sec |-> s]
         IN  /\ secs' = s
             /\ lsHistory' = addedHistory(loadHistory, analysis.file, createdAt, nextId)
             /\ nextId' = IF lsHistory' = lsHistory THEN nextId ELSE nextId + 1
    /\ loading' = FALSE
    /\ analysis' = settled(analysis)
    /\ IF incrementFetches(analysis.authAtClick)
       THEN NoteS("incrementFetch", NoResult, {"auth/usage"})
       ELSE Note("incrementUsage")
    /\ UNCHANGED <<variant, backendUsage, auxVars, today, lsUser, storageEvents, tokenVars, user,
                   isLoading, pcInit, authReq, file,
                   limitReached, histLenAtCall>>

\* a catch block of handleAnalyze that counts the attempt
usageAfterAnalyzeFail_counted(raw, day) == StoredUsage(incrementedUsage(raw, day))

\* the usage record the catch block of handleAnalyze leaves: incrementUsage()
\* sits after the await and is skipped when analyzeMeeting rejects
usageAfterAnalyzeFail(raw, day) == raw

\* process-meeting failed
AnalyzeFail ==
    /\ analysis.state = "pending"
    /\ loading' = FALSE
    /\ analysis' = settled(analysis)
    /\ lsUsage' = usageAfterAnalyzeFail(lsUsage, getTodayDate)
    /\ Note("analyzeFail")
    /\ UNCHANGED <<variant, backendUsage, auxVars, clockVars, lsUser, lsHistory, nextId, storageEvents, tokenVars, user,
                   isLoading, serverUsage, guestUsage, requestVars, file,
                   limitReached, incsToday, histLenAtCall>>

\* ---------------------------------------------------------------------
\* lib/authApi.ts: token handling
\* ---------------------------------------------------------------------
\* getToken(): the module variable, else recovered from sessionStorage
getToken == IF token # Null THEN token ELSE ssToken

\* ---------------------------------------------------------------------
\* AuthProvider, backend-authenticated variant
\* ---------------------------------------------------------------------
DefaultServerUsage == [usedToday |-> 0, dailyLimit |-> 5]

\* an init() without its finally block
loadingAfterRestore_kept == isLoading

\* init(): finally { setIsLoading(false) }
loadingAfterRestore == FALSE

\* mount effect: init() up to the await of initializeAuth() / getMe()
B_InitEffect ==
    /\ variant = "backend"
    /\ pcInit = "mount"
    /\ token' = getToken
    /\ IF getToken = Null
       THEN pcInit' = "done" /\ isLoading' = loadingAfterRestore
       ELSE pcInit' = "awaitMe" /\ isLoading' = TRUE
    /\ NoteS(IF getToken = Null THEN "restoreNone" ELSE "other", NoResult,
             IF getToken = Null THEN {} ELSE {"auth/me"})
    /\ UNCHANGED <<variant, backendUsage, auxVars, clockVars, storageVars, storageEvents, ssToken, user,
                   serverUsage, guestUsage, authReq, usageReqs,
                   pageVars, incsToday, histLenAtCall>>

\* auth/me answered: getMe() rotates the token, init() adopts the session
B_MeOk(u, us, t) ==
    /\ pcInit = "awaitMe"
    /\ token' = t /\ ssToken' = t
    /\ user' = u
    /\ serverUsage' = us
    /\ isLoading' = loadingAfterRestore
    /\ pcInit' = "done"
    /\ limitReached' = limitAfterEffect(user', limitReached)
    /\ Note("restoreOk")
    /\ UNCHANGED <<variant, backendUsage, auxVars, clockVars, storageVars, storageEvents, guestUsage,
                   authReq, usageReqs, file, loading, analysis, incsToday, histLenAtCall>>

\* getMe() returning null without clearToken()
tokenAfterMeFail_kept(t) == t

\* the catch block of getMe(): clearToken()
tokenAfterMeFail(t) == Null

\* auth/me rejected or unreachable: getMe() clears the token and returns null
B_MeFail ==
    /\ pcInit = "awaitMe"
    /\ token' = tokenAfterMeFail(token) /\ ssToken' = tokenAfterMeFail(ssToken)
    /\ isLoading' = loadingAfterRestore
    /\ pcInit' = "done"
    /\ Note("restoreFail")
    /\ UNCHANGED <<variant, backendUsage, auxVars, clockVars, storageVars, storageEvents, user, serverUsage,
                   guestUsage, authReq, usageReqs, pageVars,
                   incsToday, histLenAtCall>>

\* register(payload) / login(payload), up to the await of the request
B_AuthCall(kind) ==
    /\ variant = "backend"
    /\ Mounted
    /\ authReq.kind = "none"
    /\ authReq' = [NoAuthReq EXCEPT !.kind = kind]
    /\ isLoading' = TRUE
    /\ NoteS("other", NoResult, {IF kind = "register" THEN "auth/register" ELSE "auth/login"})
    /\ UNCHANGED <<variant, backendUsage, auxVars, clockVars, storageVars, storageEvents, tokenVars, user,
                   serverUsage, guestUsage, pcInit, usageReqs, pageVars,
                   incsToday, histLenAtCall>>

\* the meetings register() hands to migrateMeetings
migratePayload == getHistory

\* the end of register()/login() without setUser
FinishAuth_keepsUser(u, us) ==
    /\ user' = user
    /\ serverUsage' = us
    /\ isLoading' = FALSE
    /\ authReq' = NoAuthReq
    /\ limitReached' = limitAfterEffect(user', limitReached)

\* the end of register()/login(): adopt the session
FinishAuth(u, us) ==
    /\ user' = u
    /\ serverUsage' = us
    /\ isLoading' = FALSE
    /\ authReq' = NoAuthReq
    /\ limitReached' = limitAfterEffect(user', limitReached)

\* auth/register answered with {user, token, usage}
B_RegisterOk(u, us, t) ==
    /\ authReq.kind = "register"
    /\ token' = t /\ ssToken' = t
    /\ IF Len(migratePayload) > 0
       THEN /\ authReq' = [kind |-> "migrate", user |-> u, usage |-> us,
                           payload |-> migratePayload]
            /\ histLenAtCall' = Len(loadHistory)
            /\ NoteS("migrateCall", NoResult, {"auth/migrate-meetings"})
            /\ UNCHANGED <<user, serverUsage, isLoading, limitReached>>
       ELSE /\ FinishAuth(u, us)
            /\ NoteR("registerOk", Success(u))
            /\ UNCHANGED histLenAtCall
    /\ UNCHANGED <<variant, backendUsage, auxVars, clockVars, storageVars, storageEvents, guestUsage, pcInit,
                   usageReqs, file, loading, analysis, incsToday>>

\* authApi.login/register clearing the token when the request is rejected
tokenAfterReject_cleared(t) == Null

\* authApi.login/register: authFetch throws before setToken is reached
tokenAfterReject(t) == t

\* auth/register or auth/login rejected or unreachable
B_AuthFail ==
    /\ authReq.kind \in {"register", "login"}
    /\ isLoading' = FALSE
    /\ authReq' = NoAuthReq
    /\ token' = tokenAfterReject(token)
    /\ ssToken' = tokenAfterReject(ssToken)
    /\ NoteR(IF authReq.kind = "login" THEN "loginFail" ELSE "registerFail",
             Failure("failure"))
    /\ UNCHANGED <<variant, backendUsage, auxVars, clockVars, storageVars, storageEvents, user,
                   serverUsage, guestUsage, pcInit, usageReqs, pageVars,
                   incsToday, histLenAtCall>>

\* register() letting the migration error reach its outer catch
resultAfterMigrateFail_rethrown(u) == Failure("failure")

\* what register() reports when migrateMeetings rejects: the catch block
\* logs and register() goes on to its success return
resultAfterMigrateFail(u) == Success(u)

\* the count the backend reports for the meetings it received
backendMigrated(meetings) == Len(meetings)

\* auth/migrate-meetings answered with {migrated}
B_MigrateOk ==
    /\ authReq.kind = "migrate"
    /\ lastMigrated' = [valid |-> TRUE, migrated |-> backendMigrated(authReq.payload),
                        before |-> histLenAtCall]
    /\ histLenAtCall' = 0
    /\ lsHistory' = clearedHistory
    /\ FinishAuth(authReq.user, authReq.usage)
    /\ lastOp' = "migrateOk"
    /\ arg' = Null
    /\ authResult' = Success(authReq.user)
    /\ sent' = {}
    /\ UNCHANGED <<variant, backendUsage, auxVars, clockVars, lsUsage, lsUser, nextId, storageEvents,
                   tokenVars, guestUsage, pcInit, usageReqs, file, loading, analysis, incsToday>>

\* register() clearing the history in the catch block as well
historyAfterMigrateFail_cleared(list) == savedHistory(<<>>)

\* the history register() leaves behind when migrateMeetings rejects
historyAfterMigrateFail(list) == list

\* auth/migrate-meetings rejected or unreachable
B_MigrateFail ==
    /\ authReq.kind = "migrate"
    /\ lsHistory' = historyAfterMigrateFail(lsHistory)
    /\ IF resultAfterMigrateFail(authReq.user).status = "success"
       THEN FinishAuth(authReq.user, authReq.usage)
       ELSE /\ isLoading' = FALSE
            /\ authReq' = NoAuthReq
            /\ UNCHANGED <<user, serverUsage, limitReached>>
    /\ histLenAtCall' = 0
    /\ NoteR("migrateFail", resultAfterMigrateFail(authReq.user))
    /\ UNCHANGED <<variant, backendUsage, auxVars, clockVars, lsUsage, lsUser, nextId, storageEvents,
                   tokenVars, guestUsage, pcInit, usageReqs, file, loading, analysis,
                   incsToday>>

\* auth/login answered with {user, token, usage}
B_LoginOk(u, us, t) ==
    /\ authReq.kind = "login"
    /\ token' = t /\ ssToken' = t
    /\ FinishAuth(u, us)
    /\ NoteR("loginOk", Success(u))
    /\ UNCHANGED <<variant, backendUsage, auxVars, clockVars, storageVars, storageEvents, guestUsage, pcInit,
                   usageReqs, file, loading, analysis, incsToday,
                   histLenAtCall>>

\* logout()
B_Logout ==
    /\ variant = "backend"
    /\ isAuthenticated
    /\ token' = Null /\ ssToken' = Null
    /\ user' = NoUser
    /\ serverUsage' = DefaultServerUsage
    /\ guestUsage' = getUsage
    /\ Note("logout")
    /\ UNCHANGED <<variant, backendUsage, auxVars, clockVars, storageVars, storageEvents, isLoading,
                   requestVars, pageVars, incsToday, histLenAtCall>>

\* refreshUsage(), registered path: issue auth/usage
B_RefreshUsage ==
    /\ variant = "backend"
    /\ isAuthenticated
    /\ usageReqs < MaxFetch
    /\ usageReqs' = usageReqs + 1
    /\ NoteS("other", NoResult, {"auth/usage"})
    /\ UNCHANGED <<variant, backendUsage, auxVars, clockVars, storageVars, storageEvents, tokenVars, user,
                   isLoading, serverUsage, guestUsage, pcInit, authReq,
                   pageVars, incsToday, histLenAtCall>>

\* auth/usage answered: setServerUsage
B_UsageOk(us) ==
    /\ usageReqs > 0
    /\ usageReqs' = usageReqs - 1
    /\ serverUsage' = us
    /\ Note("other")
    /\ UNCHANGED <<variant, backendUsage, auxVars, clockVars, storageVars, storageEvents, tokenVars, user,
                   isLoading, guestUsage, pcInit, authReq, pageVars, incsToday, histLenAtCall>>

\* auth/usage failed: ignored
B_UsageFail ==
    /\ usageReqs > 0
    /\ usageReqs' = usageReqs - 1
    /\ Note("other")
    /\ UNCHANGED <<variant, backendUsage, auxVars, clockVars, storageVars, storageEvents, tokenVars, user,
                   isLoading, serverUsage, guestUsage, pcInit, authReq,
                   pageVars, incsToday, histLenAtCall>>

\* ---------------------------------------------------------------------
\* Specification
\* ---------------------------------------------------------------------
\* Steps of the clock and of other tabs
Environment ==
    \/ NextDay
    \/ OtherTabIncrement

\* register, login and logout of the local-simulated AuthProvider
LocalAuth ==
    \/ \E email \in RawEmails : L_Register(email)
    \/ \E email \in RawEmails : L_Login(email)
    \/ L_Logout

\* Steps of the NewMeeting page
Page ==
    \/ \E f \in Files : SelectFile(f)
    \/ HandleAnalyze
    \/ AnalyzeOk
    \/ AnalyzeFail

\* Steps of the backend-authenticated AuthProvider, the backend answering
\* for accounts out of `accounts'
BackendSession(accounts) ==
    \/ B_InitEffect
    \/ \E u \in accounts, us \in ServerUsages, t \in Tokens : B_MeOk(u, us, t)
    \/ B_MeFail
    \/ \E kind \in {"register", "login"} : B_AuthCall(kind)
    \/ \E u \in accounts, us \in ServerUsages, t \in Tokens : B_RegisterOk(u, us, t)
    \/ \E u \in accounts, us \in ServerUsages, t \in Tokens : B_LoginOk(u, us, t)
    \/ B_AuthFail
    \/ B_MigrateOk
    \/ B_MigrateFail
    \/ B_Logout
    \/ B_RefreshUsage
    \/ \E us \in ServerUsages : B_UsageOk(us)
    \/ B_UsageFail

\* The whole application, the backend knowing one account
Next ==
    \/ Environment
    \/ \E key \in {"speechi_usage", "speechi_user"} : L_HandleStorage(key)
    \/ LocalAuth
    \/ RefreshUsageLocal
    \/ Page
    \/ BackendSession({User1})

Spec == Init /\ [][Next]_vars

\* The session only: no page and no clock, the backend knows two accounts,
\* and the guest may have a meeting left from an earlier visit.
OldMeeting == [id |-> 0, fileName |-> "a.mp3", createdAt |-> [day |-> 0, sec |-> 0]]

InitAuth == \E history \in {<<>>, <<OldMeeting>>} : InitWith(history)

NextAuth ==
    \/ LocalAuth
    \/ BackendSession(Users)

SpecAuth == InitAuth /\ [][NextAuth]_vars

\* The backend-authenticated session together with the NewMeeting page, for
\* a guest who may have a meeting left from an earlier visit
NextMigrate ==
    \/ Page
    \/ BackendSession({User1})

SpecMigrate == InitAuth /\ [][NextMigrate]_vars

\* ---------------------------------------------------------------------
\* The usage fetches of a registered session, against a backend whose count
\* for the account only grows during the day
\* ---------------------------------------------------------------------
\* what the backend reports when it answers now
reportedUsage == [usedToday |-> backendUsage.used, dailyLimit |-> 5]

\* process-meeting of the signed-in account, counted by the backend
U_Count ==
    /\ variant = "backend"
    /\ backendUsage.used < MaxServer
    /\ backendUsage' = [backendUsage EXCEPT !.used = @ + 1]
    /\ Note("other")
    /\ UNCHANGED <<variant, auxVars, clockVars, storageVars, storageEvents, tokenVars, user,
                   isLoading, serverUsage, guestUsage, requestVars, pageVars, incsToday,
                   histLenAtCall>>

\* incrementUsage() / refreshUsage() of a registered session: authApi.getUsage()
\* is sent and the backend answers with its count of that moment
U_Fetch ==
    /\ variant = "backend"
    /\ isAuthenticated
    /\ backendUsage' = [backendUsage EXCEPT !.answers = @ \cup {backendUsage.used}]
    /\ NoteS("usageFetch", NoResult, {"auth/usage"})
    /\ UNCHANGED <<variant, auxVars, clockVars, storageVars, storageEvents, tokenVars, user,
                   isLoading, serverUsage, guestUsage, requestVars, pageVars, incsToday,
                   histLenAtCall>>

\* an auth/usage answer arrives, in any order: .then(setServerUsage)
U_Answer(used) ==
    /\ used \in backendUsage.answers
    /\ backendUsage' = [backendUsage EXCEPT !.answers = @ \ {used}]
    /\ serverUsage' = [usedToday |-> used, dailyLimit |-> 5]
    /\ Note("usageAnswer")
    /\ UNCHANGED <<variant, auxVars, clockVars, storageVars, storageEvents, tokenVars, user,
                   isLoading, guestUsage, requestVars, pageVars, incsToday, histLenAtCall>>

NextUsage ==
    \/ B_InitEffect
    \/ \E t \in Tokens : B_MeOk(User1, reportedUsage, t)
    \/ B_MeFail
    \/ B_AuthCall("login")
    \/ \E t \in Tokens : B_LoginOk(User1, reportedUsage, t)
    \/ B_AuthFail
    \/ B_Logout
    \/ U_Count
    \/ U_Fetch
    \/ \E used \in 0..MaxServer : U_Answer(used)

SpecUsage == Init /\ [][NextUsage]_vars

\* The session with its scheduling: the mount effect runs once the provider
\* has rendered, and the auth/me request it sent settles
SpecAuthLive ==
    /\ SpecAuth
    /\ WF_vars(B_InitEffect)
    /\ WF_vars(B_MeFail \/ \E u \in Users, us \in ServerUsages, t \in Tokens : B_MeOk(u, us, t))

\* =====================================================================
\* Properties
\* =====================================================================
\* C1: in every reachable state, in both variants and for guests and
\* registered users, the answer checkLimit() gives has canProceed true exactly
\* when used < limit, and limitReached is the negation of canProceed; the
\* same holds of storage.ts canUseService().
C1_CheckLimitGate ==
    /\ checkLimit.canProceed <=> (checkLimit.used < checkLimit.limit)
    /\ checkLimit.limitReached = ~checkLimit.canProceed
    /\ canUseService.allowed <=> (canUseService.used < canUseService.limit)

\* C1 witness: a registered user of the backend variant was just refused by
\* handleAnalyze because used = limit
C1_Witness ==
    /\ variant = "backend"
    /\ lastOp = "handleAnalyze"
    /\ isAuthenticated
    /\ limitReached.set
    /\ ~checkLimit.canProceed
    /\ checkLimit.used = checkLimit.limit

\* C2 (as claimed): for a guest, the used value checkLimit() answers with is
\* the effective count of the stored usage record at the moment of the call.
C2_CheckLimitReadsStore ==
    ~isAuthenticated => checkLimit.used = getUsage.count

C4_GuestCount ==
    /\ [](lastOp = "incrementUsage" /\ ~isAuthenticated => usage.usedToday = incsToday)
    /\ [][(/\ ~isAuthenticated /\ ~isAuthenticated'
           /\ today' = today
           /\ guestUsage.date = today)
          => usage'.usedToday >= usage.usedToday]_vars

\* C4 witness: the second increment of a day that follows a rollover
C4_Witness ==
    /\ lastOp = "incrementUsage"
    /\ ~isAuthenticated
    /\ today = 2
    /\ incsToday = 2
    /\ usage.usedToday = 2

\* C5: whenever the stored usage record is for a date other than today and has
\* a count above 0, getUsage() returns {date: today, count: 0}; and a read
\* (refreshUsage) hands that value to the session and leaves the store as it was.
C5_LazyReset ==
    /\ []((lsUsage.kind = "valid" /\ lsUsage.count > 0 /\ lsUsage.date # today)
          => (getUsage.date = today /\ getUsage.count = 0))
    /\ [][lastOp' = "refreshUsage" => (guestUsage' = getUsage /\ lsUsage' = lsUsage)]_vars

\* C5 witness: a read just happened on a later date than that of the stored record
C5_Witness ==
    /\ lastOp = "refreshUsage"
    /\ lsUsage.kind = "valid" /\ lsUsage.count > 0 /\ lsUsage.date # today
    /\ guestUsage = [date |-> today, count |-> 0, lastUsedAt |-> 0]

\* C6: the step of register() that handles a failed migrateMeetings call
\* leaves the local history exactly as it was, every meeting sent included.
C6_MigrateFailKeepsHistory ==
    [][lastOp' = "migrateFail" =>
         /\ lsHistory' = lsHistory
         /\ \A i \in 1..Len(authReq.payload) :
              \E j \in 1..Len(lsHistory') : lsHistory'[j] = authReq.payload[i]]_vars

\* C6 witness: a migration just failed and the meetings are still there
C6_Witness ==
    /\ lastOp = "migrateFail"
    /\ Len(lsHistory) > 0

\* C7: right after a successful migrateMeetings call of register() the local
\* history is empty and the migrated count the backend reported is the length
\* the local history had when the call was made.
C7_MigrateOkClears ==
    lastMigrated.valid =>
        /\ lsHistory = <<>>
        /\ lastMigrated.migrated = lastMigrated.before

\* C7 witness: a migration of at least one meeting just succeeded
C7_Witness ==
    /\ lastOp = "migrateOk"
    /\ lastMigrated.valid
    /\ lastMigrated.migrated >= 1

\* C8: right after a successful login or register the session is
\* authenticated as the user that call returned; right after logout it is
\* unauthenticated and the usage limit shown is the guest limit 1.
C8_IdentitySwap ==
    /\ authResult.status = "success" => (isAuthenticated /\ user = authResult.user)
    /\ lastOp = "logout" => (~isAuthenticated /\ usage.dailyLimit = 1)

\* C8 witness: a login answered with another account than the one signed in
C8_Witness ==
    /\ variant = "backend"
    /\ lastOp = "loginOk"
    /\ authResult = Success(User2)
    /\ user = User2

\* C9: whether migrateMeetings succeeded or failed, register() returns
\* success and the session is that of the registered user.
C9_RegisterSurvivesMigration ==
    [][lastOp' \in {"migrateOk", "migrateFail"} =>
         /\ authResult' = Success(authReq.user)
         /\ user' = authReq.user
         /\ isAuthenticated']_vars

\* C9 witness: register() returned success after a failed migration
C9_Witness ==
    /\ lastOp = "migrateFail"
    /\ authResult.status = "success"
    /\ isAuthenticated

\* C10: a click on Analyze that checkLimit() refuses starts no request and
\* records the limit-reached state; while that state is set the Analyze
\* control is disabled.
C10_AnalyzeGate ==
    /\ [][(lastOp' = "handleAnalyze" /\ ~checkLimit.canProceed) =>
            /\ analysis' = NoAnalysis
            /\ ~loading'
            /\ limitReached'.set]_vars
    /\ [](limitReached.set => ~canAnalyze)

\* C10 witness: a guest click was refused
C10_Witness ==
    /\ lastOp = "handleAnalyze"
    /\ limitReached.set
    /\ ~limitReached.isRegistered
    /\ analysis = NoAnalysis


\* ---------------------------------------------------------------------
\* lib/storage.ts called while the browser storage fails
\* ---------------------------------------------------------------------
PrefKeys == {"uiLanguage", "outputLanguage", "theme"}
StorageModes == {"ok", "full", "disabled"}

\* values found under a preference key: a valid one, a foreign one, none
StoredPrefs(key) == IF key = "theme" THEN {"dark", "bogus"} ELSE {"he", "bogus"}

\* the values each getter accepts
AllowedPrefs(key) ==
    IF key = "theme" THEN {"light", "dark", "system"} ELSE {"en", "he", "fr", "es", "ar"}

\* DEFAULT_UI, DEFAULT_OUTPUT, DEFAULT_THEME
DefaultPref(key) == IF key = "theme" THEN "light" ELSE "en"

Returned(fn, key, value) == [fn |-> fn, key |-> key, outcome |-> "returned", value |-> value]
Threw(fn, key) == [fn |-> fn, key |-> key, outcome |-> "threw", value |-> Null]

\* getUiLanguage / getOutputLanguage / getTheme: no try around getItem
getPref(key) ==
    IF getItemThrows THEN Threw("get", key)
    ELSE Returned("get", key,
                  IF prefs[key] \in AllowedPrefs(key) THEN prefs[key] ELSE DefaultPref(key))

\* setUiLanguage / setOutputLanguage / setTheme: no try around setItem
setPref(key, v) ==
    IF setItemThrows THEN Threw("set", key) ELSE Returned("set", key, v)

\* the browser storage starts or stops failing
S_SetMode(m) ==
    /\ storageMode # m
    /\ storageMode' = m
    /\ ret' = NoRet
    /\ Note("other")
    /\ UNCHANGED <<variant, backendUsage, prefs, form, errors, clockVars, storageVars, storageEvents,
                   tokenVars, user, isLoading, serverUsage, guestUsage, requestVars,
                   pageVars, incsToday, histLenAtCall>>

\* another tab or an older build left a value under a preference key
S_ForeignPref(key) ==
    /\ storageMode = "ok"
    /\ \E v \in StoredPrefs(key) : prefs' = [prefs EXCEPT ![key] = v]
    /\ prefs' # prefs
    /\ ret' = NoRet
    /\ Note("other")
    /\ UNCHANGED <<variant, backendUsage, storageMode, form, errors, clockVars, storageVars,
                   storageEvents, tokenVars, user, isLoading, serverUsage, guestUsage,
                   requestVars, pageVars, incsToday, histLenAtCall>>

S_GetPref(key) ==
    /\ ret' = getPref(key)
    /\ Note("other")
    /\ UNCHANGED <<variant, backendUsage, storageMode, prefs, form, errors, clockVars, storageVars,
                   storageEvents, tokenVars, user, isLoading, serverUsage, guestUsage,
                   requestVars, pageVars, incsToday, histLenAtCall>>

S_SetPref(key) ==
    /\ \E v \in AllowedPrefs(key) \cap {"he", "dark"} :
         /\ ret' = setPref(key, v)
         /\ prefs' = IF setItemThrows THEN prefs ELSE [prefs EXCEPT ![key] = v]
    /\ Note("other")
    /\ UNCHANGED <<variant, backendUsage, storageMode, form, errors, clockVars, storageVars,
                   storageEvents, tokenVars, user, isLoading, serverUsage, guestUsage,
                   requestVars, pageVars, incsToday, histLenAtCall>>

\* getUser / getUsage / getHistory: the catch block returns the default
S_GetRecord(fn) ==
    /\ ret' = Returned(fn, Null,
                 CASE fn = "getUser" -> IF getItemThrows THEN NoUser ELSE getUser
                   [] fn = "getUsage" -> IF getItemThrows THEN FreshUsage(getTodayDate) ELSE getUsage
                   [] fn = "getHistory" -> IF getItemThrows THEN <<>> ELSE getHistory)
    /\ Note("other")
    /\ UNCHANGED <<variant, backendUsage, storageMode, prefs, form, errors, clockVars, storageVars,
                   storageEvents, tokenVars, user, isLoading, serverUsage, guestUsage,
                   requestVars, pageVars, incsToday, histLenAtCall>>

\* setUser / removeUser / incrementUsage / clearHistory: the write is tried
\* and an exception is ignored
S_WriteRecord(fn) ==
    /\ fn = "incrementUsage" => getUsage.count < MaxCount
    /\ lsUser' = CASE fn = "setUser" /\ ~setItemThrows -> User1
                   [] fn = "removeUser" /\ ~getItemThrows -> NoUser
                   [] OTHER -> lsUser
    /\ lsUsage' = IF fn = "incrementUsage" /\ ~setItemThrows
                  THEN StoredUsage(incrementedUsage(lsUsage, getTodayDate)) ELSE lsUsage
    /\ lsHistory' = IF fn = "clearHistory" /\ ~setItemThrows THEN clearedHistory ELSE lsHistory
    /\ ret' = Returned(fn, Null,
                 IF fn = "incrementUsage"
                 THEN incrementedUsage(IF getItemThrows THEN AbsentUsage ELSE lsUsage,
                                       getTodayDate)
                 ELSE Null)
    /\ Note("other")
    /\ UNCHANGED <<variant, backendUsage, storageMode, prefs, form, errors, clockVars, nextId,
                   storageEvents, tokenVars, user, isLoading, serverUsage, guestUsage,
                   requestVars, pageVars, incsToday, histLenAtCall>>

NextStorage ==
    \/ \E m \in StorageModes : S_SetMode(m)
    \/ \E key \in PrefKeys : S_ForeignPref(key)
    \/ \E key \in PrefKeys : S_GetPref(key)
    \/ \E key \in PrefKeys : S_SetPref(key)
    \/ \E fn \in {"getUser", "getUsage", "getHistory"} : S_GetRecord(fn)
    \/ \E fn \in {"setUser", "removeUser", "incrementUsage", "clearHistory"} : S_WriteRecord(fn)

SpecStorage == InitAuth /\ [][NextStorage]_vars

\* ---------------------------------------------------------------------
\* lib/storage.ts: the history operations on stored lists of any length
\* ---------------------------------------------------------------------
\* a list stored by earlier sessions: one analysis of the same recording a day
StoredHistory(n) ==
    [i \in 1..n |-> [id |-> 1000 + i, fileName |-> "a.mp3",
                     createdAt |-> [day |-> i - MAX_HISTORY - 1, sec |-> 0]]]

HistoryFiles == {"a.mp3", "b.mp3"}
HistoryTimes == {[day |-> 1, sec |-> 0], [day |-> 1, sec |-> 59], [day |-> 1, sec |-> 60]}

InitHistory ==
    \E n \in {0, MAX_HISTORY - 1, MAX_HISTORY} : InitWith(StoredHistory(n))

H_Add(fileName, createdAt) ==
    /\ nextId <= MaxAdds \/ addedHistory(loadHistory, fileName, createdAt, nextId) = loadHistory
    /\ lsHistory' = addedHistory(loadHistory, fileName, createdAt, nextId)
    /\ ret' = Returned("addHistoryItem", [fileName |-> fileName, createdAt |-> createdAt],
                       addHistoryItemResult(loadHistory, fileName, createdAt, nextId))
    /\ nextId' = IF ret'.value.id = nextId THEN nextId + 1 ELSE nextId
    /\ Note("other")
    /\ UNCHANGED <<variant, backendUsage, storageMode, prefs, form, errors, clockVars, lsUsage, lsUser,
                   storageEvents, tokenVars, user, isLoading, serverUsage, guestUsage,
                   requestVars, pageVars, incsToday, histLenAtCall>>

\* an operation that rewrites the list without adding to it
H_Rewrite(fn, id) ==
    /\ lsHistory' = CASE fn = "deleteHistoryItem" -> deletedHistory(loadHistory, id)
                      [] fn = "updateHistoryExports" -> updatedHistory(loadHistory, id)
                      [] fn = "clearHistory" -> clearedHistory
    /\ ret' = Returned(fn, id, Null)
    /\ Note("other")
    /\ UNCHANGED <<variant, backendUsage, storageMode, prefs, form, errors, clockVars, lsUsage, lsUser,
                   nextId, storageEvents, tokenVars, user, isLoading, serverUsage,
                   guestUsage, requestVars, pageVars, incsToday, histLenAtCall>>

NextHistory ==
    \/ \E f \in HistoryFiles, c \in HistoryTimes : H_Add(f, c)
    \/ \E fn \in {"deleteHistoryItem", "updateHistoryExports", "clearHistory"},
          id \in 1..MaxAdds : H_Rewrite(fn, id)

SpecHistory == InitHistory /\ [][NextHistory]_vars

\* ---------------------------------------------------------------------
\* components/AuthModal.tsx: the register form.  Strings are sequences of
\* characters, so that trim(), length and the e-mail pattern are computed.
\* ---------------------------------------------------------------------
Str1(a) == <<a>>
Str2(a, b) == <<a, b>>
Repeat(c, n) == [i \in 1..n |-> c]

FormFields == {"firstName", "lastName", "email", "password", "confirmPassword"}

\* what the user may type into each field
Typed(field) ==
    CASE field = "firstName" -> {<<" ", "a", " ">>, Str2("a", "b")}
      [] field = "lastName" -> {Str1("a"), <<" ", "a", "b">>}
      [] field = "email" -> {<<" ", "a", "@", "b", ".", "c">>, <<"a", "@", "b">>,
                             <<"a", " ", "@", "b", ".", "c">>}
      [] field = "password" -> {Repeat("p", 5), Repeat("p", 6)}
      [] field = "confirmPassword" -> {Repeat("p", 6), Repeat("q", 6)}

RECURSIVE TrimStart(_)
TrimStart(str) ==
    IF str # <<>> /\ Head(str) = " " THEN TrimStart(Tail(str)) ELSE str

RECURSIVE TrimEnd(_)
TrimEnd(str) ==
    IF str # <<>> /\ str[Len(str)] = " " THEN TrimEnd(SubSeq(str, 1, Len(str) - 1)) ELSE str

\* String.prototype.trim()
Trim(str) == TrimEnd(TrimStart(str))

\* /^[^\s@]+@[^\s@]+\.[^\s@]+$/ matched against a string
MatchesEmailPattern(str) ==
    /\ \A i \in 1..Len(str) : str[i] # " "
    /\ \E at \in 2..Len(str) :
         /\ str[at] = "@"
         /\ \A i \in 1..Len(str) : str[i] = "@" => i = at
         /\ \E dot \in (at + 2)..(Len(str) - 1) : str[dot] = "."

\* isValidEmail(email)
isValidEmail(email) == MatchesEmailPattern(Trim(email))

\* validateRegister() with the minimum name length at 1
validateRegister_shortNames(f) ==
    {field \in FormFields :
        CASE field \in {"firstName", "lastName"} -> Len(Trim(f[field])) < 1
          [] field = "email" -> Trim(f.email) = <<>> \/ ~isValidEmail(f.email)
          [] field = "password" -> Len(f.password) < 6
          [] field = "confirmPassword" ->
                f.confirmPassword = <<>> \/ f.password # f.confirmPassword}

\* validateRegister(): the fields it reports an error for
validateRegister(f) ==
    {field \in FormFields :
        CASE field \in {"firstName", "lastName"} ->
                Trim(f[field]) = <<>> \/ Len(Trim(f[field])) < 2
          [] field = "email" -> Trim(f.email) = <<>> \/ ~isValidEmail(f.email)
          [] field = "password" -> f.password = <<>> \/ Len(f.password) < 6
          [] field = "confirmPassword" ->
                f.confirmPassword = <<>> \/ f.password # f.confirmPassword}

\* onChange of an input: set the value, clear that field's error
F_Edit(field, value) ==
    /\ variant = "backend"
    /\ Mounted
    /\ form[field] # value
    /\ form' = [form EXCEPT ![field] = value]
    /\ errors' = errors \ {field}
    /\ Note("other")
    /\ UNCHANGED <<variant, backendUsage, storageMode, prefs, ret, clockVars, storageVars, storageEvents,
                   tokenVars, user, isLoading, serverUsage, guestUsage, requestVars,
                   pageVars, incsToday, histLenAtCall>>

\* handleRegister: validate, and only then call register(payload)
F_SubmitRegister ==
    /\ variant = "backend"
    /\ Mounted
    /\ authReq.kind = "none"
    /\ errors' = validateRegister(form)
    /\ IF validateRegister(form) = {}
       THEN /\ authReq' = [NoAuthReq EXCEPT !.kind = "register"]
            /\ isLoading' = TRUE
            /\ NoteS("submitRegister", NoResult, {"auth/register"})
       ELSE /\ Note("submitRegister")
            /\ UNCHANGED <<authReq, isLoading>>
    /\ UNCHANGED <<variant, backendUsage, storageMode, prefs, ret, form, clockVars, storageVars,
                   storageEvents, tokenVars, user, serverUsage, guestUsage, pcInit,
                   usageReqs, pageVars, incsToday, histLenAtCall>>

NextForm ==
    \/ B_InitEffect
    \/ B_MeFail
    \/ \E field \in FormFields : \E value \in Typed(field) : F_Edit(field, value)
    \/ F_SubmitRegister
    \/ \E us \in ServerUsages, t \in Tokens : B_RegisterOk(User1, us, t)
    \/ B_AuthFail

SpecForm == Init /\ [][NextForm]_vars

\* ---------------------------------------------------------------------
\* The guest path of both variants and the local-simulated session on a
\* browser storage that may start and stop failing
\* ---------------------------------------------------------------------
NextFaulty ==
    \/ \E m \in StorageModes : S_SetMode(m)
    \/ LocalAuth
    \/ RefreshUsageLocal
    \/ Page
    \/ B_InitEffect
    \/ B_MeFail

SpecFaulty == Init /\ [][NextFaulty]_vars

\* ---------------------------------------------------------------------
\* Several tabs of the local-simulated variant on one browser profile:
\* other tabs write the profile and the usage record
\* ---------------------------------------------------------------------
NextTabs ==
    \/ NextDay
    \/ OtherTabIncrement
    \/ \E email \in {"b@x"} : OtherTabRegister(email)
    \/ OtherTabLogout
    \/ \E key \in {"speechi_usage", "speechi_user"} : L_HandleStorage(key)
    \/ LocalAuth
    \/ RefreshUsageLocal
    \/ Page

SpecTabs == Init /\ [][NextTabs]_vars

\* =====================================================================
\* Properties (continued)
\* =====================================================================

\* C11: the step that ends a successful analysis makes exactly one
\* incrementUsage() call (the stored count goes up by one for a guest closure,
\* one auth/usage fetch is issued for a registered one), the step that ends
\* a failed analysis makes none, and while the date stays the same the
\* effective count of the stored usage record never goes down.
C11_OneIncrementPerSuccess ==
    /\ [][(analysis.state = "pending" /\ analysis'.state = "none") =>
            IF lastOp' = "analyzeFail"
            THEN lsUsage' = lsUsage /\ usageReqs' = usageReqs /\ sent' = {}
            ELSE \/ /\ getUsage'.count = getUsage.count + 1
                    /\ usageReqs' = usageReqs /\ sent' = {}
                 \/ /\ lsUsage' = lsUsage
                    /\ usageReqs' = usageReqs + 1 /\ sent' = {"auth/usage"}]_vars
    /\ [][today' = today => getUsage'.count >= getUsage.count]_vars

\* C11 witness: a guest analysis just succeeded and was counted once
C11_Witness ==
    /\ lastOp = "incrementUsage"
    /\ analysis = NoAnalysis /\ ~loading
    /\ Len(lsHistory) = 1
    /\ getUsage.count = 1
    /\ incsToday = 1

\* C12: a login that is rejected (the local variant finds no profile for the
\* e-mail, the backend rejects the request) returns a failure result, and
\* neither the start of the call nor its rejection changes the user, the
\* token in memory and in sessionStorage, the stored profile, the usage
\* record or the history; a guest stays a guest.
C12_RejectedLoginChangesNothing ==
    [][(\/ lastOp' = "loginFail"
        \/ (authReq.kind = "none" /\ authReq'.kind = "login")) =>
         /\ lastOp' = "loginFail" => authResult' \in {Failure("not_found"), Failure("failure")}
         /\ user' = user
         /\ isAuthenticated' = isAuthenticated
         /\ token' = token /\ ssToken' = ssToken
         /\ lsUser' = lsUser /\ lsUsage' = lsUsage /\ lsHistory' = lsHistory]_vars

\* C12 witness: the backend just rejected the login of a guest whose tab
\* still holds a token from an earlier session
C12_Witness ==
    /\ lastOp = "loginFail"
    /\ authResult = Failure("failure")
    /\ ~isAuthenticated
    /\ ssToken # Null

\* C13 (as claimed): right after a successful register() of a session whose
\* local usage record counts 1 for today, checkLimit() answers limit = 5 and
\* canProceed = TRUE with used equal to 0 or to the value the backend
\* reported, whatever the local counter holds.
C13_RegisterSwitchesTier ==
    (/\ lastOp \in {"register", "registerOk", "migrateOk", "migrateFail"}
     /\ authResult.status = "success"
     /\ getUsage.count = 1) =>
        /\ checkLimit.limit = 5
        /\ checkLimit.canProceed
        /\ \/ checkLimit.used = 0
           \/ variant = "backend" /\ checkLimit.used = serverUsage.usedToday

C15_LogoutNotifiesBackend ==
    lastOp = "logout" =>
        /\ ~isAuthenticated
        /\ token = Null /\ ssToken = Null
        /\ variant = "backend" => sent # {}
        /\ variant = "local" => sent = {}

\* C16 (as claimed): no accessor of the Local Key-Value Store throws, whatever
\* the state of the browser storage, and a read made while the storage
\* cannot be read returns the documented default.
C16_AccessorsNeverThrow ==
    /\ ret.outcome # "threw"
    /\ (ret.fn = "get" /\ ret.outcome = "returned" /\ storageMode = "disabled") =>
          ret.value = DefaultPref(ret.key)

\* C17: after any sequence of history operations the stored history holds at
\* most 100 items, and an add that creates an entry while the list is full
\* drops the head of the stored list and keeps the other 99 items, in order,
\* before the new one.
C17_HistoryCap ==
    /\ [](Len(lsHistory) <= 100)
    /\ [][(/\ ret'.fn = "addHistoryItem"
           /\ nextId' # nextId
           /\ Len(lsHistory) = 100) =>
            /\ Len(lsHistory') = 100
            /\ \A i \in 1..99 : lsHistory'[i] = lsHistory[i + 1]
            /\ lsHistory'[100] = ret'.value]_vars

\* C17 witness: an add to a list of 100 items evicted the oldest one
C17_Witness ==
    /\ ret.fn = "addHistoryItem"
    /\ Len(lsHistory) = 100
    /\ lsHistory[1].id = 1002
    /\ lsHistory[100].id = 1

\* C18: addHistoryItem(item) with a stored item of the same fileName less than
\* 60 s away stores nothing and returns such a stored item; otherwise it
\* appends the item under an id no stored item has and returns it; either
\* way, adding the same item once more leaves the history as it is.
C18_AddDeduplicates ==
    [][ret'.fn = "addHistoryItem" =>
         LET item == ret'.key
             near(e) == /\ e.fileName = item.fileName
                        /\ TimeOf(e.createdAt) - TimeOf(item.createdAt) < 60
                        /\ TimeOf(item.createdAt) - TimeOf(e.createdAt) < 60
             stored == {lsHistory[i] : i \in 1..Len(lsHistory)}
         IN  /\ IF \E e \in stored : near(e)
                THEN /\ lsHistory' = lsHistory
                     /\ ret'.value \in {e \in stored : near(e)}
                ELSE /\ ret'.value.fileName = item.fileName
                     /\ ret'.value.createdAt = item.createdAt
                     /\ \A e \in stored : e.id # ret'.value.id
                     /\ lsHistory'[Len(lsHistory')] = ret'.value
                     /\ Len(lsHistory') = IF Len(lsHistory) < 100 THEN Len(lsHistory) + 1 ELSE 100
             /\ addedHistory(lsHistory', item.fileName, item.createdAt, nextId') = lsHistory'
       ]_vars

\* C18 witness: the same recording was submitted 59 s after a stored one and
\* was absorbed, after an item 60 s away had been appended
C18_Witness ==
    /\ ret.fn = "addHistoryItem"
    /\ ret.key.createdAt.sec = 59
    /\ ret.value.id # nextId - 1
    /\ ret.value.fileName = ret.key.fileName
    /\ Len(lsHistory) = 2
    /\ lsHistory[1].createdAt.sec = 0 /\ lsHistory[2].createdAt.sec = 60
    /\ lsHistory[1].fileName = lsHistory[2].fileName

\* C19: a submission of the register form sends the auth/register request
\* only when both names have at least 2 characters after trimming, the
\* trimmed e-mail is well-formed, the password has at least 6 characters and
\* the confirmation equals it; any other submission sends nothing, starts no
\* register call and reports a field error.
C19_InvalidRegisterStaysLocal ==
    [][lastOp' = "submitRegister" =>
         LET valid == /\ Len(Trim(form.firstName)) >= 2
                      /\ Len(Trim(form.lastName)) >= 2
                      /\ isValidEmail(form.email)
                      /\ Len(form.password) >= 6
                      /\ form.confirmPassword = form.password
         IN  IF valid
             THEN sent' = {"auth/register"} /\ authReq'.kind = "register" /\ errors' = {}
             ELSE sent' = {} /\ authReq' = authReq /\ errors' # {}]_vars

\* C19 witness: a submission whose only defect is a first name of one
\* character between spaces was blocked
C19_Witness ==
    /\ lastOp = "submitRegister"
    /\ sent = {}
    /\ errors = {"firstName"}
    /\ form.firstName = <<" ", "a", " ">>
    /\ authReq.kind = "none"

\* C20: incrementUsage() of a registered session leaves the cached usage as
\* it is and issues one auth/usage fetch; the cached usage only ever holds
\* the default {0, 5} or a usage the backend reported, and it changes only
\* when a register, login, me or usage response is adopted or on logout.
C20_ServerUsageFromBackendOnly ==
    /\ [](serverUsage \in ServerUsages \cup {DefaultServerUsage})
    /\ [][lastOp' = "incrementFetch" =>
            /\ serverUsage' = serverUsage
            /\ lsUsage' = lsUsage /\ guestUsage' = guestUsage
            /\ usageReqs' = usageReqs + 1
            /\ sent' = {"auth/usage"}]_vars
    /\ [][serverUsage' # serverUsage =>
            \/ lastOp' \in {"registerOk", "migrateOk", "migrateFail", "loginOk"}
            \/ pcInit = "awaitMe" /\ pcInit' = "done"
            \/ usageReqs' = usageReqs - 1
            \/ lastOp' = "logout" /\ serverUsage' = DefaultServerUsage]_vars

\* C20 witness: the analysis of a registered user just succeeded and the
\* cached usage still shows what the backend last reported
C20_Witness ==
    /\ lastOp = "incrementFetch"
    /\ isAuthenticated
    /\ usageReqs = 1
    /\ serverUsage = [usedToday |-> 0, dailyLimit |-> 5]
    /\ Len(lsHistory) = 1

\* C21 (as claimed): right after incrementUsage() on the guest path the usage
\* held by the Session Context is what a fresh getUsage() returns, and right
\* after register() or logout() of the local variant the user and the usage it
\* holds are what fresh getUser() and getUsage() calls return.
C21_ReactiveEqualsStore ==
    [][/\ lastOp' = "incrementUsage" => guestUsage' = getUsage'
       /\ (variant = "local" /\ lastOp' \in {"register", "logout"}) =>
             (user' = getUser' /\ guestUsage' = getUsage')]_vars

\* C22: in the local variant, the delivery of a storage event for the
\* profile key replaces the user by the stored profile, and the delivery of
\* an event for either key replaces the usage by the effective stored usage
\* (the stored record if it is for today, a zero count otherwise), whatever
\* the tab held before; the store is left as the last writer wrote it, and
\* once no profile event is pending the user is the stored profile.
C22_StorageEventRereads ==
    /\ [][lastOp' = "storage" =>
            LET effective ==
                  IF lsUsage.kind = "valid" /\ lsUsage.date = today
                  THEN [date |-> lsUsage.date, count |-> lsUsage.count,
                        lastUsedAt |-> lsUsage.lastUsedAt]
                  ELSE [date |-> today, count |-> 0, lastUsedAt |-> 0]
            IN  /\ "speechi_user" \in storageEvents \ storageEvents' => user' = lsUser
                /\ guestUsage' = effective
                /\ lsUser' = lsUser /\ lsUsage' = lsUsage]_vars
    /\ []((variant = "local" /\ "speechi_user" \notin storageEvents) => user = lsUser)

\* C22 witness: the profile another tab registered replaced the user, and
\* the usage was re-read on a later day than that of the stored record
C22_Witness ==
    /\ lastOp = "storage"
    /\ storageEvents = {}
    /\ user.email = "b@x" /\ user = lsUser
    /\ lsUsage.kind = "valid" /\ lsUsage.count > 0 /\ lsUsage.date # today
    /\ guestUsage = [date |-> today, count |-> 0, lastUsedAt |-> 0]

\* C23: a NewMeeting page has at most one process-meeting request in flight;
\* while one is in flight the page is loading and the Analyze control is
\* disabled, so no click starts another request before it settles, and the
\* step that settles it is the only one that counts it.
C23_OneAnalysisInFlight ==
    /\ [](analysis.inFlight <= 1)
    /\ []((analysis.inFlight = 1) <=> (analysis.state = "pending"))
    /\ [](analysis.state = "pending" => (loading /\ ~canAnalyze))
    /\ [][analysis.state = "pending" =>
            /\ lastOp' # "handleAnalyze"
            /\ "process-meeting" \notin sent'
            /\ analysis'.inFlight <= analysis.inFlight]_vars
    /\ [][(incsToday' > incsToday /\ lastOp' = "incrementUsage") =>
            (analysis.inFlight = 1 /\ analysis'.inFlight = 0 /\ incsToday' = incsToday + 1)]_vars

\* C23 witness: a request is in flight, a file is selected and no limit
\* message is shown, and the control is disabled
C23_Witness ==
    /\ analysis.inFlight = 1
    /\ loading
    /\ file # Null /\ ~limitReached.set
    /\ ~canAnalyze
    /\ lastOp # "handleAnalyze"

C25_UserImpliesToken ==
    (variant = "backend" /\ isAuthenticated) => getToken # Null

\* C26 (as claimed): right after logout() of the backend-authenticated
\* variant the session has no user and no token, and when the next thing to
\* happen is the arrival of the response to a request that was in flight
\* during that logout (auth/me, login, register, migrate-meetings, usage),
\* the session still has no user and no token afterwards.
C26_LogoutIsFinal ==
    /\ [](lastOp = "logout" => (~isAuthenticated /\ getToken = Null))
    /\ [][(/\ lastOp = "logout" /\ variant = "backend"
           /\ \/ pcInit = "awaitMe" /\ pcInit' = "done"
              \/ authReq.kind # "none" /\ authReq' # authReq
              \/ usageReqs' < usageReqs) =>
            (~isAuthenticated' /\ getToken' = Null)]_vars

\* C27 (as claimed): every history item the clear after a successful
\* migration removes was part of the payload sent to migrate-meetings.
C27_ClearOnlyMigrated ==
    [][lastOp' = "migrateOk" =>
         \A i \in 1..Len(lsHistory) :
            (\A j \in 1..Len(lsHistory') : lsHistory'[j] # lsHistory[i]) =>
               \E k \in 1..Len(authReq.payload) : authReq.payload[k] = lsHistory[i]]_vars

\* C28 (as claimed): in every reachable state the used count the Session
\* Context exposes is at most the daily limit it exposes.
C28_UsedWithinLimit ==
    usage.usedToday <= usage.dailyLimit

\* C29 (as claimed): while the same user stays signed in and the day does not
\* change, the cached usedToday never decreases, however the answers to
\* overlapping auth/usage requests are ordered.
C29_CachedUsageMonotone ==
    [][(lastOp' = "usageAnswer" /\ isAuthenticated /\ user' = user /\ today' = today) =>
         serverUsage'.usedToday >= serverUsage.usedToday]_vars

\* C30: in the local-simulated variant login(email) succeeds, with the stored
\* profile as its user, exactly when a profile is stored whose e-mail equals
\* the trimmed and lower-cased argument, and otherwise returns not_found;
\* logout leaves no profile stored, and only a register stores one, so a
\* login between a logout and the next register returns not_found.
C30_LocalLogin ==
    /\ [][(variant = "local" /\ lastOp' \in {"login", "loginFail"}) =>
            LET matches == lsUser # NoUser /\ lsUser.email = NormEmail(arg')
            IN  /\ lastOp' = "login" <=> matches
                /\ lastOp' = "login" => (authResult' = Success(lsUser) /\ user' = lsUser)
                /\ lastOp' = "loginFail" =>
                      (authResult' = Failure("not_found") /\ user' = user)
                /\ lsUser' = lsUser]_vars
    /\ [][(variant = "local" /\ lastOp' = "logout") => lsUser' = NoUser]_vars
    /\ [][(variant = "local" /\ lsUser' # lsUser /\ lsUser' # NoUser) =>
            (lastOp' \in {"register", "other"} /\ lsUser'.email \in {NormEmail(e) : e \in RawEmails})]_vars

\* reached: a profile stored as "a@x" is found by login(" A@X ")
C30_Witness ==
    /\ variant = "local"
    /\ lastOp = "login"
    /\ arg = " A@X "
    /\ lsUser # NoUser /\ lsUser.email = "a@x"
    /\ user = lsUser

====
